---- MODULE Spec2Model ----
(***************************************************************************)
(* Resume ATS Score Checker: the response normaliser of                    *)
(* utils/llm_client.py (analyze_resume, parse_fallback_response), the text *)
(* extractor of utils/parser.py and the text report of app.py.             *)
(*                                                                         *)
(* A text is a sequence of characters.  Single characters that the code    *)
(* inspects one by one (braces, quotes, digits, minus, star, blanks, line   *)
(* breaks) are one element each; a run of characters that the code only    *)
(* ever tests as a whole (a word, the code fence, the two reasoning-block  *)
(* markers) is one element written as that run.                            *)
(***************************************************************************)
EXTENDS Integers, Sequences, FiniteSets, TLC

VARIABLES
  llm_out,    \* what the LLM endpoint does with the next call
  result,     \* the dict analyze_resume returned
  calls,      \* the outbound calls made so far
  report,     \* the text generate_text_report made of the result
  rescanned,  \* what parse_fallback_response reads from the report
  upload,     \* the uploaded file
  installed,  \* the decoder libraries that can be imported
  extracted,  \* what extract_text made of the uploaded file
  api_key,        \* NVIDIA_API_KEY of the environment
  llm_available,  \* LLM_AVAILABLE of app.py
  job_desc,       \* the text of the job description box
  page,           \* what the page shows after the last script run
  actions,        \* the user actions so far
  requests,       \* the calls of analyze_resume so far
  pc

appVars == <<api_key, llm_available, job_desc, page, actions, requests>>

vars ==
  <<llm_out, result, calls, report, rescanned, upload, installed, extracted,
    api_key, llm_available, job_desc, page, actions, requests, pc>>

-----------------------------------------------------------------------------
(* Characters *)

SP == " "
NL == "\n"
QUOTE == "\""
\* three backquotes, the markdown code fence
FENCE == "FENCE"
THINK_OPEN == "<think>"
THINK_CLOSE == "</think>"
\* U+2022, the bullet app.py writes; and the three characters U+00E2 U+20AC
\* U+00A2 that llm_client.py line 215 holds in its place.
BULLET == "U+2022"
MOJI1 == "U+00E2"
MOJI2 == "U+20AC"
MOJI3 == "U+00A2"

Whitespace == {SP, NL}

DigitChars == <<"0", "1", "2", "3", "4", "5", "6", "7", "8", "9">>

IsDigit(c) == \E d \in 1..10 : DigitChars[d] = c

DigitVal(c) == (CHOOSE d \in 1..10 : DigitChars[d] = c) - 1

-----------------------------------------------------------------------------
(* Python str operations used by the code *)

Range(s) == {s[i] : i \in 1..Len(s)}

\* s[n:]
Drop(s, n) == IF n >= Len(s) THEN <<>> ELSE SubSeq(s, n + 1, Len(s))

\* s[:n]
Take(s, n) == IF n >= Len(s) THEN s ELSE SubSeq(s, 1, n)

\* str.find / str.rfind of a one-element needle: the 1-based place, 0 for -1
Find(s, c) ==
  IF \E i \in 1..Len(s) : s[i] = c
  THEN CHOOSE i \in 1..Len(s) : s[i] = c /\ \A j \in 1..(i - 1) : s[j] # c
  ELSE 0

RFind(s, c) ==
  IF \E i \in 1..Len(s) : s[i] = c
  THEN CHOOSE i \in 1..Len(s) : s[i] = c /\ \A j \in (i + 1)..Len(s) : s[j] # c
  ELSE 0

StartsWith(s, p) == Len(s) >= Len(p) /\ SubSeq(s, 1, Len(p)) = p

EndsWith(s, p) == Len(s) >= Len(p) /\ SubSeq(s, Len(s) - Len(p) + 1, Len(s)) = p

\* str.strip()
Strip(s) ==
  IF \A i \in 1..Len(s) : s[i] \in Whitespace
  THEN <<>>
  ELSE LET a == CHOOSE i \in 1..Len(s) :
                  s[i] \notin Whitespace /\ \A j \in 1..(i - 1) : s[j] \in Whitespace
           b == CHOOSE i \in 1..Len(s) :
                  s[i] \notin Whitespace /\ \A j \in (i + 1)..Len(s) : s[j] \in Whitespace
       IN SubSeq(s, a, b)

\* str.split on the line break: the text between two line breaks that follow
\* each other, k line breaks giving k + 1 lines
SplitLines(s) ==
  LET breaks == SelectSeq([i \in 1..Len(s) |-> i], LAMBDA i : s[i] = NL)
      Break(k) == IF k = 0 THEN 0
                  ELSE IF k > Len(breaks) THEN Len(s) + 1
                  ELSE breaks[k]
  IN [k \in 1..(Len(breaks) + 1) |-> SubSeq(s, Break(k - 1) + 1, Break(k) - 1)]

\* str.join on the line break
RECURSIVE JoinLines(_)
JoinLines(ls) ==
  IF ls = <<>> THEN <<>>
  ELSE IF Len(ls) = 1 THEN ls[1]
  ELSE LET half == Len(ls) \div 2
       IN JoinLines(SubSeq(ls, 1, half)) \o <<NL>>
          \o JoinLines(SubSeq(ls, half + 1, Len(ls)))

RECURSIVE NatDigits(_)
NatDigits(n) ==
  IF n < 10 THEN <<DigitChars[n + 1]>>
  ELSE NatDigits(n \div 10) \o <<DigitChars[(n % 10) + 1]>>

\* str(n) of an int
IntStr(n) == IF n < 0 THEN <<"-">> \o NatDigits(0 - n) ELSE NatDigits(n)

\* the value of a run of digits
RECURSIVE DigitsVal(_)
DigitsVal(ds) ==
  IF ds = <<>> THEN 0
  ELSE 10 * DigitsVal(SubSeq(ds, 1, Len(ds) - 1)) + DigitVal(ds[Len(ds)])

\* the end of the maximal run of digits that starts at i
RECURSIVE DigitRunEnd(_, _)
DigitRunEnd(s, i) ==
  IF i + 1 <= Len(s) /\ IsDigit(s[i + 1]) THEN DigitRunEnd(s, i + 1) ELSE i

-----------------------------------------------------------------------------
(* Python values: what json.loads returns and what the result dict holds *)

JInt(n) == [t |-> "int", v |-> n]
JStr(s) == [t |-> "str", v |-> s]
JList(l) == [t |-> "list", v |-> l]
JObj(m) == [t |-> "obj", v |-> m]
JBool(b) == [t |-> "bool", v |-> b]
JNull == [t |-> "null", v |-> 0]

\* dict[k] = x: a repeated key keeps its place and takes the later value
ObjPut(m, k, x) ==
  IF \E i \in 1..Len(m) : m[i].k = k
  THEN [i \in 1..Len(m) |-> IF m[i].k = k THEN [k |-> k, v |-> x] ELSE m[i]]
  ELSE Append(m, [k |-> k, v |-> x])

HasKey(o, k) == \E i \in 1..Len(o.v) : o.v[i].k = k

\* dict.get(k, default)
Get(o, k, default) ==
  IF HasKey(o, k)
  THEN (o.v[CHOOSE i \in 1..Len(o.v) : o.v[i].k = k]).v
  ELSE default

-----------------------------------------------------------------------------
(* json.loads, for the JSON that these characters can spell: objects,      *)
(* arrays, strings without escapes, integers, null, true, false.           *)

RECURSIVE SkipWs(_, _)
SkipWs(s, i) ==
  IF i <= Len(s) /\ s[i] \in Whitespace THEN SkipWs(s, i + 1) ELSE i

ParseFail == [ok |-> FALSE, val |-> JNull, nxt |-> 0]

Parsed(x, n) == [ok |-> TRUE, val |-> x, nxt |-> n]

\* a string literal that opens at i; a raw line break inside it is refused
ParseString(s, i) ==
  LET rest == Drop(s, i)
      j == Find(rest, QUOTE)
  IN IF j = 0 \/ NL \in Range(SubSeq(rest, 1, j - 1))
     THEN ParseFail
     ELSE Parsed(JStr(SubSeq(rest, 1, j - 1)), i + j + 1)

\* -?(0|[1-9][0-9]*) at i
ParseNumber(s, i) ==
  LET neg == s[i] = "-"
      d == IF neg THEN i + 1 ELSE i
  IN IF d > Len(s) \/ ~IsDigit(s[d]) THEN ParseFail
     ELSE LET e == IF s[d] = "0" THEN d ELSE DigitRunEnd(s, d)
              n == DigitsVal(SubSeq(s, d, e))
          IN Parsed(JInt(IF neg THEN 0 - n ELSE n), e + 1)

RECURSIVE ParseValue(_, _)
RECURSIVE ParseMembers(_, _, _)
RECURSIVE ParseElems(_, _, _)

\* the members of an object, a key expected at i
ParseMembers(s, i, m) ==
  IF i > Len(s) \/ s[i] # QUOTE THEN ParseFail
  ELSE LET k == ParseString(s, i)
           c == SkipWs(s, k.nxt)
       IN IF ~k.ok \/ c > Len(s) THEN ParseFail
          ELSE IF s[c] # ":" THEN ParseFail
          ELSE LET x == ParseValue(s, SkipWs(s, c + 1))
                   e == SkipWs(s, x.nxt)
                   m2 == ObjPut(m, k.val.v, x.val)
               IN IF ~x.ok \/ e > Len(s) THEN ParseFail
                  ELSE IF s[e] = "}" THEN Parsed(JObj(m2), e + 1)
                  ELSE IF s[e] = "," THEN ParseMembers(s, SkipWs(s, e + 1), m2)
                  ELSE ParseFail

\* the elements of an array, a value expected at i
ParseElems(s, i, l) ==
  LET x == ParseValue(s, i)
      e == SkipWs(s, x.nxt)
  IN IF ~x.ok \/ e > Len(s) THEN ParseFail
     ELSE IF s[e] = "]" THEN Parsed(JList(Append(l, x.val)), e + 1)
     ELSE IF s[e] = "," THEN ParseElems(s, SkipWs(s, e + 1), Append(l, x.val))
     ELSE ParseFail

ParseValue(s, i) ==
  IF i > Len(s) THEN ParseFail
  ELSE IF s[i] = "{"
       THEN LET j == SkipWs(s, i + 1)
            IN IF j <= Len(s) /\ s[j] = "}" THEN Parsed(JObj(<<>>), j + 1)
               ELSE ParseMembers(s, j, <<>>)
  ELSE IF s[i] = "["
       THEN LET j == SkipWs(s, i + 1)
            IN IF j <= Len(s) /\ s[j] = "]" THEN Parsed(JList(<<>>), j + 1)
               ELSE ParseElems(s, j, <<>>)
  ELSE IF s[i] = QUOTE THEN ParseString(s, i)
  ELSE IF s[i] = "-" \/ IsDigit(s[i]) THEN ParseNumber(s, i)
  ELSE IF s[i] = "null" THEN Parsed(JNull, i + 1)
  ELSE IF s[i] = "true" THEN Parsed(JBool(TRUE), i + 1)
  ELSE IF s[i] = "false" THEN Parsed(JBool(FALSE), i + 1)
  ELSE ParseFail

\* json.loads(s): ok = FALSE stands for json.JSONDecodeError
json_loads(s) ==
  LET r == ParseValue(s, SkipWs(s, 1))
  IN IF r.ok /\ SkipWs(s, r.nxt) > Len(s) THEN r ELSE ParseFail

\* json.dumps(x), the text a model writes for the value x
RECURSIVE Render(_)
RECURSIVE RenderMembers(_)
RECURSIVE RenderElems(_)
RenderMembers(m) ==
  IF m = <<>> THEN <<>>
  ELSE <<QUOTE>> \o m[1].k \o <<QUOTE, ":", SP>> \o Render(m[1].v)
       \o (IF Len(m) = 1 THEN <<>> ELSE <<",", SP>> \o RenderMembers(Tail(m)))

RenderElems(l) ==
  IF l = <<>> THEN <<>>
  ELSE Render(l[1])
       \o (IF Len(l) = 1 THEN <<>> ELSE <<",", SP>> \o RenderElems(Tail(l)))

Render(x) ==
  CASE x.t = "int" -> IntStr(x.v)
    [] x.t = "str" -> <<QUOTE>> \o x.v \o <<QUOTE>>
    [] x.t = "list" -> <<"[">> \o RenderElems(x.v) \o <<"]">>
    [] x.t = "obj" -> <<"{">> \o RenderMembers(x.v) \o <<"}">>
    [] x.t = "bool" -> IF x.v THEN <<"true">> ELSE <<"false">>
    [] x.t = "null" -> <<"null">>

-----------------------------------------------------------------------------
(* Python built-ins applied to values: int(), x[:n], str(), repr()         *)

Raised == [ok |-> FALSE, val |-> JNull]

Returned(x) == [ok |-> TRUE, val |-> x]

\* the number of characters of an element: a word counts its letters
Width(c) ==
  IF c = FENCE THEN 3
  ELSE IF c \in {BULLET, MOJI1, MOJI2, MOJI3} THEN 1
  ELSE Len(c)

RECURSIVE CharLen(_)
CharLen(s) == IF s = <<>> THEN 0 ELSE Width(s[1]) + CharLen(Tail(s))

\* s[:n] of a str: the leading elements that fit into n characters
RECURSIVE TakeChars(_, _)
TakeChars(s, n) ==
  IF s = <<>> \/ Width(s[1]) > n THEN <<>>
  ELSE <<s[1]>> \o TakeChars(Tail(s), n - Width(s[1]))

\* int(x): TypeError for None, a list or a dict, ValueError for a str that
\* is no integer literal
IntOf(x) ==
  CASE x.t = "int" -> Returned(x.v)
    [] x.t = "bool" -> Returned(IF x.v THEN 1 ELSE 0)
    [] x.t = "str" ->
         LET w == Strip(x.v)
             neg == w # <<>> /\ w[1] = "-"
             ds == IF neg THEN Tail(w) ELSE w
         IN IF ds # <<>> /\ \A i \in 1..Len(ds) : IsDigit(ds[i])
            THEN Returned(IF neg THEN 0 - DigitsVal(ds) ELSE DigitsVal(ds))
            ELSE Raised
    [] OTHER -> Raised

\* x[:n]: TypeError unless x is a list or a str
SliceOf(x, n) ==
  CASE x.t = "list" -> Returned(JList(Take(x.v, n)))
    [] x.t = "str" -> Returned(JStr(TakeChars(x.v, n)))
    [] OTHER -> Raised

RECURSIVE PyRepr(_)
RECURSIVE ReprMembers(_)
RECURSIVE ReprElems(_)
ReprMembers(m) ==
  IF m = <<>> THEN <<>>
  ELSE <<"'">> \o m[1].k \o <<"'", ":", SP>> \o PyRepr(m[1].v)
       \o (IF Len(m) = 1 THEN <<>> ELSE <<",", SP>> \o ReprMembers(Tail(m)))

ReprElems(l) ==
  IF l = <<>> THEN <<>>
  ELSE PyRepr(l[1])
       \o (IF Len(l) = 1 THEN <<>> ELSE <<",", SP>> \o ReprElems(Tail(l)))

\* repr(x)
PyRepr(x) ==
  CASE x.t = "int" -> IntStr(x.v)
    [] x.t = "str" -> <<"'">> \o x.v \o <<"'">>
    [] x.t = "list" -> <<"[">> \o ReprElems(x.v) \o <<"]">>
    [] x.t = "obj" -> <<"{">> \o ReprMembers(x.v) \o <<"}">>
    [] x.t = "bool" -> IF x.v THEN <<"True">> ELSE <<"False">>
    [] x.t = "null" -> <<"None">>

\* str(x), which is what an f-string writes for x
PyStr(x) == IF x.t = "str" THEN x.v ELSE PyRepr(x)

-----------------------------------------------------------------------------
(* parse_fallback_response: the heuristic scan of a text that is not JSON  *)

\* the elements that hold, in any letter case, the word the scan looks for
HasScore ==
  {"score", "Score", "ats_score", "score_summary", "score_breakdown",
   "score_explanation", "Overall ATS Score", "Score Breakdown Explanation"}
HasMatched ==
  {"matched", "Matched", "matched_keywords", "Matched Keywords",
   "No specific matched keywords identified"}
HasMissing ==
  {"missing", "Missing", "missing_keywords", "Missing Critical Keywords",
   "No missing keywords identified", "Missing key technologies from job description",
   " Add missing keywords from job description"}
HasKeyword ==
  {"keyword", "Keywords", "keywords", "matched_keywords", "missing_keywords",
   "Matched Keywords", "Missing Critical Keywords",
   "No specific matched keywords identified", "No missing keywords identified",
   " Add missing keywords from job description", "Add more relevant keywords",
   "Consider adding more relevant keywords from the job description",
   "Fallback analysis due to API issues. Keywords ("}
HasSuggestion ==
  {"suggestion", "Suggestions", "detailed_suggestions", "Detailed Suggestions"}
HasRecommend == {"recommend", "Recommendations"}

Holds(line, words) == \E i \in 1..Len(line) : line[i] \in words

DEFAULT_SCORE == 50
KEYWORD_CAP == 10
SUGGESTION_CAP == 8

DEFAULT_SUGGESTION ==
  JStr(<<"Consider adding more relevant keywords from the job description">>)
FALLBACK_FEEDBACK ==
  JStr(<<"Analysis completed with fallback parsing. Results may be limited.">>)

\* a pattern that takes the first integer of the text, whatever precedes it
score_match_any_integer(text) ==
  LET ds == {j \in 1..Len(text) : IsDigit(text[j])}
  IN IF ds = {} THEN [found |-> FALSE, group |-> <<>>]
     ELSE LET j == CHOOSE a \in ds : \A b \in ds : a <= b
          IN [found |-> TRUE, group |-> SubSeq(text, j, DigitRunEnd(text, j))]

\* re.search(r'(?:ats_score|score).*?(\d+)', text, re.IGNORECASE): the
\* leftmost place of the word that has a digit after it before the line
\* ends ('.' does not match a line break), and the run of digits there
score_match(text) ==
  LET DigitAfter(i) ==
        {j \in (i + 1)..Len(text) :
           IsDigit(text[j]) /\ \A k \in (i + 1)..(j - 1) : text[k] # NL}
      starts == {i \in 1..Len(text) : text[i] \in HasScore /\ DigitAfter(i) # {}}
  IN IF starts = {} THEN [found |-> FALSE, group |-> <<>>]
     ELSE LET i == CHOOSE a \in starts : \A b \in starts : a <= b
              j == CHOOSE a \in DigitAfter(i) : \A b \in DigitAfter(i) : a <= b
          IN [found |-> TRUE, group |-> SubSeq(text, j, DigitRunEnd(text, j))]

IsBulletLine(line) ==
  \/ StartsWith(line, <<MOJI1, MOJI2, MOJI3>>)
  \/ StartsWith(line, <<"-">>)
  \/ StartsWith(line, <<"*">>)

\* a loop that gives the suggestions the cap of the keyword lists
ScanLine_one_cap(st, raw) ==
  LET line == Strip(raw)
  IN IF Holds(line, HasMatched) /\ Holds(line, HasKeyword)
     THEN [st EXCEPT !.current_section = "matched"]
     ELSE IF Holds(line, HasMissing) /\ Holds(line, HasKeyword)
     THEN [st EXCEPT !.current_section = "missing"]
     ELSE IF Holds(line, HasSuggestion) \/ Holds(line, HasRecommend)
     THEN [st EXCEPT !.current_section = "suggestions"]
     ELSE IF IsBulletLine(line)
     THEN LET item == JStr(Strip(Drop(line, 1)))
              list == CASE st.current_section = "matched" -> "matched_keywords"
                        [] st.current_section = "missing" -> "missing_keywords"
                        [] OTHER -> "suggestions"
          IN IF st.current_section # "None" /\ Len(st[list]) < KEYWORD_CAP
             THEN [st EXCEPT ![list] = Append(@, item)]
             ELSE st
     ELSE st

\* one turn of the loop over the lines (lines 207-222)
ScanLine(st, raw) ==
  LET line == Strip(raw)
  IN IF Holds(line, HasMatched) /\ Holds(line, HasKeyword)
     THEN [st EXCEPT !.current_section = "matched"]
     ELSE IF Holds(line, HasMissing) /\ Holds(line, HasKeyword)
     THEN [st EXCEPT !.current_section = "missing"]
     ELSE IF Holds(line, HasSuggestion) \/ Holds(line, HasRecommend)
     THEN [st EXCEPT !.current_section = "suggestions"]
     ELSE IF IsBulletLine(line)
     THEN LET item == JStr(Strip(Drop(line, 1)))
          IN IF st.current_section = "matched"
                /\ Len(st.matched_keywords) < KEYWORD_CAP
             THEN [st EXCEPT !.matched_keywords = Append(@, item)]
             ELSE IF st.current_section = "missing"
                     /\ Len(st.missing_keywords) < KEYWORD_CAP
             THEN [st EXCEPT !.missing_keywords = Append(@, item)]
             ELSE IF st.current_section = "suggestions"
                     /\ Len(st.suggestions) < SUGGESTION_CAP
             THEN [st EXCEPT !.suggestions = Append(@, item)]
             ELSE st
     ELSE st

\* the loop over the lines (lines 207-222), half by half: the second half is
\* scanned from the state the first half leaves.  TLC evaluates an operator
\* argument where it is first used; the test on mid has it evaluate the
\* state of the first half before the second half is entered, which keeps
\* the evaluation shallow on long texts.
RECURSIVE ScanLines(_, _)
ScanLines(st, lines) ==
  IF lines = <<>> THEN st
  ELSE IF Len(lines) = 1 THEN ScanLine(st, lines[1])
  ELSE LET half == Len(lines) \div 2
           mid == ScanLines(st, SubSeq(lines, 1, half))
       IN IF mid.current_section \in {"None", "matched", "missing", "suggestions"}
          THEN ScanLines(mid, SubSeq(lines, half + 1, Len(lines)))
          ELSE mid

Clamp(n) ==
  LET lo == IF n > 0 THEN n ELSE 0
  IN IF lo < 100 THEN lo ELSE 100

parse_fallback_response(response_text) ==
  LET m == score_match(response_text)
      ats_score == IF m.found THEN DigitsVal(m.group) ELSE DEFAULT_SCORE
      st == ScanLines([current_section |-> "None", matched_keywords |-> <<>>,
                       missing_keywords |-> <<>>, suggestions |-> <<>>],
                      SplitLines(response_text))
  IN [ats_score |-> Clamp(ats_score),
      matched_keywords |-> JList(st.matched_keywords),
      missing_keywords |-> JList(st.missing_keywords),
      suggestions |-> IF st.suggestions # <<>> THEN JList(st.suggestions)
                      ELSE JList(<<DEFAULT_SUGGESTION>>),
      feedback |-> FALLBACK_FEEDBACK]

-----------------------------------------------------------------------------
(* analyze_resume                                                          *)

KEYWORD_LIMIT == 15
ITEM_LIMIT == 10

Key(name) == <<name>>

Word(w) == JStr(<<w>>)

\* the dict of lines 148-181
SampleResult ==
  [ats_score |-> 65,
   score_summary |-> Word("Analysis completed with fallback data due to API issues"),
   matched_keywords |->
     JList(<<Word("Python"), Word("Machine Learning"), Word("Data Analysis")>>),
   missing_keywords |-> JList(<<Word("AWS"), Word("Docker"), Word("Kubernetes")>>),
   text_replacements |->
     JList(<<JObj(<<
       [k |-> Key("section"), v |-> Word("Experience")],
       [k |-> Key("original_text"), v |-> Word("Worked on projects")],
       [k |-> Key("improved_text"),
        v |-> JStr(<<"Developed and deployed ", "3",
                     "+ projects using Python and machine learning frameworks">>)],
       [k |-> Key("reason"),
        v |-> Word("Added specific technologies and quantified achievements")]>>)>>),
   detailed_suggestions |->
     JList(<<JObj(<<
       [k |-> Key("priority"), v |-> Word("High")],
       [k |-> Key("category"), v |-> Word("Keywords")],
       [k |-> Key("issue"), v |-> Word("Missing key technologies from job description")],
       [k |-> Key("solution"),
        v |-> Word("Add cloud technologies and DevOps tools to skills section")],
       [k |-> Key("expected_impact"),
        v |-> JStr(<<"Improve ATS matching by ", "1", "5", "-", "2", "0",
                     " points">>)]>>)>>),
   score_breakdown |->
     JObj(<<[k |-> Key("keywords"), v |-> JInt(15)],
            [k |-> Key("experience"), v |-> JInt(18)],
            [k |-> Key("skills"), v |-> JInt(14)],
            [k |-> Key("education"), v |-> JInt(10)],
            [k |-> Key("formatting"), v |-> JInt(8)]>>),
   score_explanation |->
     JStr(<<"Fallback analysis due to API issues. Keywords (", "1", "5", "/", "2",
            "5", "): Basic coverage. Experience (", "1", "8", "/", "2", "5",
            "): Relevant but needs metrics. Skills (", "1", "4", "/", "2", "0",
            "): Good foundation. Education (", "1", "0", "/", "1", "5",
            "): Adequate. Formatting (", "8", "/", "1", "5",
            "): Could be improved.">>),
   next_steps |->
     JStr(<<"1", ".", " Add missing keywords from job description", ".", SP,
            "2", ".", " Quantify achievements with specific numbers", ".", SP,
            "3", ".", " Improve resume formatting and structure", ".">>),
   suggestions |->
     JList(<<Word("Add more relevant keywords"), Word("Quantify your achievements"),
             Word("Improve formatting")>>),
   feedback |-> Word("Analysis completed with fallback data due to technical issues.")]

\* lines 94-102: strip, then drop a reasoning block
strip_think(response_content) ==
  LET c == Strip(response_content)
      think_end == Find(c, THINK_CLOSE)
  IN IF THINK_OPEN \in Range(c) /\ think_end # 0
     THEN Strip(Drop(c, think_end))
     ELSE c

\* lines 104-111: drop the code fence
strip_fence(c) ==
  LET a == IF StartsWith(c, <<FENCE, "json">>) THEN Drop(c, 2) ELSE c
      b == IF StartsWith(a, <<FENCE>>) THEN Drop(a, 1) ELSE a
      d == IF EndsWith(b, <<FENCE>>) THEN Take(b, Len(b) - 1) ELSE b
  IN Strip(d)

\* the span that ends at the first closing brace
json_span_first_close(c) ==
  LET json_start == Find(c, "{")
      json_end == Find(c, "}")
  IN IF json_start # 0 /\ json_end # 0 /\ json_end > json_start
     THEN SubSeq(c, json_start, json_end)
     ELSE c

\* lines 113-117: the span from the first opening to the last closing brace
json_span(c) ==
  LET json_start == Find(c, "{")
      json_end == RFind(c, "}")
  IN IF json_start # 0 /\ json_end # 0 /\ json_end > json_start
     THEN SubSeq(c, json_start, json_end)
     ELSE c

clean_response(response_content) == json_span(strip_fence(strip_think(response_content)))

\* one entry of the legacy suggestions list (line 135): AttributeError
\* when the item is no dict
legacy_suggestion(item) ==
  IF item.t # "obj" THEN Raised
  ELSE Returned(JStr(
         PyStr(Get(item, Key("category"), Word("General"))) \o <<":", SP>>
         \o PyStr(Get(item, Key("solution"),
                      Get(item, Key("suggestion"), JStr(PyStr(item)))))))

\* the items a for loop draws from x: the entries of a list, the characters
\* of a str
IterItems(x) ==
  IF x.t = "list" THEN x.v ELSE [i \in 1..Len(x.v) |-> JStr(<<x.v[i]>>)]

\* lines 124-138; ok = FALSE when building the dict raises
validated_result(parsed) ==
  IF parsed.t # "obj" THEN Raised
  ELSE
    LET ats_score == IntOf(Get(parsed, Key("ats_score"), JInt(0)))
        matched == SliceOf(Get(parsed, Key("matched_keywords"), JList(<<>>)), KEYWORD_LIMIT)
        missing == SliceOf(Get(parsed, Key("missing_keywords"), JList(<<>>)), KEYWORD_LIMIT)
        replacements == SliceOf(Get(parsed, Key("text_replacements"), JList(<<>>)), ITEM_LIMIT)
        detailed == Get(parsed, Key("detailed_suggestions"), JList(<<>>))
        detailed_cut == SliceOf(detailed, ITEM_LIMIT)
        items == IterItems(detailed)
    IN IF ~ats_score.ok \/ ~matched.ok \/ ~missing.ok \/ ~replacements.ok
          \/ ~detailed_cut.ok
       THEN Raised
       ELSE IF \E i \in 1..Len(items) : ~legacy_suggestion(items[i]).ok
       THEN Raised
       ELSE Returned(
         [ats_score |-> Clamp(ats_score.val),
          score_summary |-> Get(parsed, Key("score_summary"), Word("Analysis completed")),
          matched_keywords |-> matched.val,
          missing_keywords |-> missing.val,
          text_replacements |-> replacements.val,
          detailed_suggestions |-> detailed_cut.val,
          score_breakdown |-> Get(parsed, Key("score_breakdown"), JObj(<<>>)),
          score_explanation |->
            Get(parsed, Key("score_explanation"), Word("Score analysis not available.")),
          next_steps |-> Get(parsed, Key("next_steps"), Word("Next steps not available.")),
          suggestions |->
            JList([i \in 1..Len(items) |-> legacy_suggestion(items[i]).val]),
          feedback |->
            Get(parsed, Key("score_explanation"), Word("Analysis completed successfully."))])

\* the body of the outer try (lines 77-144) once the call has returned
normalize(response_content) ==
  LET c == clean_response(response_content)
      parsed == json_loads(c)
  IN IF parsed.ok THEN validated_result(parsed.val)
     ELSE Returned(parse_fallback_response(c))

\* what a caller sees when analyze_resume lets an exception out
Propagated == [exception |-> TRUE]

\* a handler that catches json.JSONDecodeError alone
analyze_resume_narrow_except(out) ==
  IF out.kind = "raise" THEN Propagated
  ELSE LET r == normalize(out.text)
       IN IF r.ok THEN r.val ELSE Propagated

\* lines 76-181: the outer handler turns every exception, the call's and
\* the body's, into the sample
analyze_resume(out) ==
  IF out.kind = "raise" THEN SampleResult
  ELSE LET r == normalize(out.text)
       IN IF r.ok THEN r.val ELSE SampleResult

-----------------------------------------------------------------------------
(* generate_text_report (app.py).  The pictograph that opens each section  *)
(* header is left out of the header's element.                             *)

\* dict.get on the result
RGet(r, f, default) == IF f \in DOMAIN r THEN r[f] ELSE default

\* bool(x)
Truthy(x) ==
  CASE x.t \in {"list", "str", "obj"} -> Len(x.v) > 0
    [] x.t = "int" -> x.v # 0
    [] x.t = "bool" -> x.v
    [] OTHER -> FALSE

\* what a for loop draws from x: TypeError unless x is a list, a str or a dict
LoopItems(x) ==
  CASE x.t = "list" -> Returned(x.v)
    [] x.t = "str" -> Returned([i \in 1..Len(x.v) |-> JStr(<<x.v[i]>>)])
    [] x.t = "obj" -> Returned([i \in 1..Len(x.v) |-> JStr(x.v[i].k)])
    [] OTHER -> Raised

RECURSIVE Concat(_)
Concat(ss) ==
  IF ss = <<>> THEN <<>>
  ELSE IF Len(ss) = 1 THEN ss[1]
  ELSE LET half == Len(ss) \div 2
       IN Concat(SubSeq(ss, 1, half)) \o Concat(SubSeq(ss, half + 1, Len(ss)))

Contains(s, p) == \E i \in 1..(Len(s) - Len(p) + 1) : SubSeq(s, i, i + Len(p) - 1) = p

\* re.split(r'\d+\.', s): the pieces between the runs of digits that a
\* full stop follows
RECURSIVE SplitNumbered(_)
SplitNumbered(s) ==
  LET starts == {i \in 1..Len(s) :
                   /\ IsDigit(s[i])
                   /\ DigitRunEnd(s, i) + 1 <= Len(s)
                   /\ s[DigitRunEnd(s, i) + 1] = "."}
  IN IF starts = {} THEN <<s>>
     ELSE LET i == CHOOSE a \in starts : \A b \in starts : a <= b
          IN <<SubSeq(s, 1, i - 1)>> \o SplitNumbered(Drop(s, DigitRunEnd(s, i) + 1))

\* a keyword section that is left out when the list is empty, as the later
\* sections are
keyword_section_optional(header, keywords, placeholder) ==
  IF ~Truthy(keywords) THEN Returned(<<>>)
  ELSE LET items == LoopItems(keywords)
       IN IF ~items.ok THEN Raised
          ELSE Returned(<<<<header>>>>
                 \o [i \in 1..Len(items.val) |-> <<BULLET, SP>> \o PyStr(items.val[i])]
                 \o <<<<>>>>)

\* lines 339-357: a keyword section
keyword_section(header, keywords, placeholder) ==
  IF ~Truthy(keywords) THEN Returned(<<<<header>>, <<BULLET, SP, placeholder>>, <<>>>>)
  ELSE LET items == LoopItems(keywords)
       IN IF ~items.ok THEN Raised
          ELSE Returned(<<<<header>>>>
                 \o [i \in 1..Len(items.val) |-> <<BULLET, SP>> \o PyStr(items.val[i])]
                 \o <<<<>>>>)

\* lines 359-373
replacement_section(text_replacements) ==
  IF ~Truthy(text_replacements) THEN Returned(<<>>)
  ELSE LET items == LoopItems(text_replacements)
       IN IF ~items.ok THEN Raised
          ELSE IF \E i \in 1..Len(items.val) : items.val[i].t # "obj" THEN Raised
          ELSE Returned(<<<<"Text Replacements (Resume Improvements)">>>>
                 \o Concat([i \in 1..Len(items.val) |->
                      LET r == items.val[i]
                      IN << IntStr(i) \o <<".", SP, "Section:", SP>>
                              \o PyStr(Get(r, Key("section"), Word("Section"))),
                            <<SP, SP, SP, "Current Text:", SP>>
                              \o PyStr(Get(r, Key("original_text"),
                                           Word("Original text not provided"))),
                            <<SP, SP, SP, "Improved Text:", SP>>
                              \o PyStr(Get(r, Key("improved_text"),
                                           Word("Improved text not provided"))),
                            <<SP, SP, SP, "Why this helps:", SP>>
                              \o PyStr(Get(r, Key("reason"),
                                           Word("Improvement reason not provided"))),
                            <<>> >>]))

\* lines 390-402: one priority group
priority_group(group, priority_name) ==
  IF group = <<>> THEN <<>>
  ELSE <<<<priority_name>>>>
       \o Concat([i \in 1..Len(group) |->
            LET g == group[i]
            IN << <<BULLET, SP, "Category:", SP>>
                    \o PyStr(Get(g, Key("category"), Word("General"))),
                  <<SP, SP, "Issue:", SP>>
                    \o PyStr(Get(g, Key("issue"), Word("Issue not specified"))),
                  <<SP, SP, "Suggested Fix:", SP>>
                    \o PyStr(Get(g, Key("solution"), Word("Solution not provided"))),
                  <<SP, SP, "Expected Impact:", SP>>
                    \o PyStr(Get(g, Key("expected_impact"), Word("Impact not specified"))),
                  <<>> >>])

\* lines 375-402
suggestion_section(detailed_suggestions) ==
  IF ~Truthy(detailed_suggestions) THEN Returned(<<>>)
  ELSE LET items == LoopItems(detailed_suggestions)
       IN IF ~items.ok THEN Raised
          ELSE IF \E i \in 1..Len(items.val) : items.val[i].t # "obj" THEN Raised
          ELSE LET Of(p) ==
                     SelectSeq(items.val,
                               LAMBDA g : Get(g, Key("priority"), JNull) = Word(p))
               IN Returned(<<<<"Detailed Suggestions">>>>
                    \o priority_group(Of("High"), "High Priority:")
                    \o priority_group(Of("Medium"), "Medium Priority:")
                    \o priority_group(Of("Low"), "Low Priority:"))

\* lines 404-409: a value that is no str cannot be joined into the text
explanation_section(score_explanation) ==
  IF ~Truthy(score_explanation) THEN Returned(<<>>)
  ELSE IF score_explanation.t # "str" THEN Raised
  ELSE Returned(<<<<"Score Breakdown Explanation">>, score_explanation.v, <<>>>>)

\* lines 411-425
next_steps_section(next_steps) ==
  IF ~Truthy(next_steps) THEN Returned(<<>>)
  ELSE IF next_steps.t # "str" THEN Raised
  ELSE IF Contains(next_steps.v, <<"1", ".">>) /\ Contains(next_steps.v, <<"2", ".">>)
  THEN LET steps == SplitNumbered(next_steps.v)
           kept == SelectSeq([i \in 1..Len(steps) |-> Strip(steps[i])],
                             LAMBDA c : c # <<>> /\ CharLen(c) > 3)
       IN Returned(<<<<"Next Steps">>>>
            \o [i \in 1..Len(kept) |-> <<BULLET, SP>> \o kept[i]]
            \o <<<<>>>>)
  ELSE Returned(<<<<"Next Steps">>, next_steps.v, <<>>>>)

\* lines 325-427; ok = FALSE when the function raises
generate_text_report(r) ==
  LET head == << <<"Overall ATS Score">>,
                 IntStr(RGet(r, "ats_score", 0)) \o <<"/", "1", "0", "0">>,
                 PyStr(RGet(r, "score_summary", Word("Analysis completed"))),
                 <<>> >>
      matched == keyword_section("Matched Keywords",
                                 RGet(r, "matched_keywords", JList(<<>>)),
                                 "No specific matched keywords identified")
      missing == keyword_section("Missing Critical Keywords",
                                 RGet(r, "missing_keywords", JList(<<>>)),
                                 "No missing keywords identified")
      replacements == replacement_section(RGet(r, "text_replacements", JList(<<>>)))
      detailed == suggestion_section(RGet(r, "detailed_suggestions", JList(<<>>)))
      explanation == explanation_section(RGet(r, "score_explanation", JStr(<<>>)))
      steps == next_steps_section(RGet(r, "next_steps", JStr(<<>>)))
  IN IF ~matched.ok \/ ~missing.ok \/ ~replacements.ok \/ ~detailed.ok
        \/ ~explanation.ok \/ ~steps.ok
     THEN Raised
     ELSE Returned(JoinLines(head \o matched.val \o missing.val \o replacements.val
                             \o detailed.val \o explanation.val \o steps.val))

-----------------------------------------------------------------------------
(* utils/parser.py: text extraction from an uploaded file                  *)

TAB == "\t"
NBSP == "U+00A0"
A_CIRC == "U+00C2"
Y_DIAER == "U+00FF"
GRAVE == "GRAVE"    \* the backquote character

\* what the pattern \s matches in a str
UnicodeSpace == {SP, NL, TAB, NBSP}

UpperLetters ==
  <<"A", "B", "C", "D", "E", "F", "G", "H", "I", "J", "K", "L", "M",
    "N", "O", "P", "Q", "R", "S", "T", "U", "V", "W", "X", "Y", "Z">>

LowerLetters ==
  <<"a", "b", "c", "d", "e", "f", "g", "h", "i", "j", "k", "l", "m",
    "n", "o", "p", "q", "r", "s", "t", "u", "v", "w", "x", "y", "z">>

LowerChar(c) ==
  IF \E i \in 1..26 : UpperLetters[i] = c
  THEN LowerLetters[CHOOSE i \in 1..26 : UpperLetters[i] = c]
  ELSE c

UpperChar(c) ==
  IF \E i \in 1..26 : LowerLetters[i] = c
  THEN UpperLetters[CHOOSE i \in 1..26 : LowerLetters[i] = c]
  ELSE c

\* str.lower() and str.upper()
Lower(s) == [i \in 1..Len(s) |-> LowerChar(s[i])]

Upper(s) == [i \in 1..Len(s) |-> UpperChar(s[i])]

\* what the pattern \w matches in a str
IsWordChar(c) ==
  \/ \E i \in 1..26 : c = UpperLetters[i] \/ c = LowerLetters[i]
  \/ IsDigit(c)
  \/ c \in {"_", A_CIRC, Y_DIAER}

\* the punctuation the character class of clean_text lists
AllowedPunctuation ==
  {"-", ".", ",", ";", ":", "(", ")", "[", "]", "@", "#", "%", "&", "*", "+",
   "=", "<", ">", "?", "/", "\\", "|", QUOTE, "'", GRAVE, "~"}

IsAllowed(c) == IsWordChar(c) \/ c \in UnicodeSpace \/ c \in AllowedPunctuation

\* re.sub(run of W, one space, s)
RECURSIVE CollapseRuns(_, _)
CollapseRuns(s, W) ==
  IF s = <<>> THEN <<>>
  ELSE IF s[1] \in W
       THEN IF Len(s) > 1 /\ s[2] \in W
            THEN CollapseRuns(Tail(s), W)
            ELSE <<SP>> \o CollapseRuns(Tail(s), W)
       ELSE <<s[1]>> \o CollapseRuns(Tail(s), W)

\* s.strip() is empty
IsBlank(s) == \A i \in 1..Len(s) : s[i] \in UnicodeSpace

\* s.strip()
StripSpace(s) ==
  IF IsBlank(s) THEN <<>>
  ELSE LET a == CHOOSE i \in 1..Len(s) :
                  s[i] \notin UnicodeSpace /\ \A j \in 1..(i - 1) : s[j] \in UnicodeSpace
           b == CHOOSE i \in 1..Len(s) :
                  s[i] \notin UnicodeSpace /\ \A j \in (i + 1)..Len(s) : s[j] \in UnicodeSpace
       IN SubSeq(s, a, b)

\* a cleaning that stops after the replacement of line 182
clean_text_replace_only(text) ==
  IF text = <<>> THEN <<>>
  ELSE LET collapsed == CollapseRuns(text, UnicodeSpace)
       IN [i \in 1..Len(collapsed) |->
             IF IsAllowed(collapsed[i]) THEN collapsed[i] ELSE SP]

clean_text(text) ==
  IF text = <<>> THEN <<>>
  ELSE LET collapsed == CollapseRuns(text, UnicodeSpace)
           replaced == [i \in 1..Len(collapsed) |->
                          IF IsAllowed(collapsed[i]) THEN collapsed[i] ELSE SP]
           single == CollapseRuns(replaced, {SP})
       IN StripSpace(single)

\* bytes of a file: an ASCII byte is written as its character
BYTE_C2 == "0xC2"
BYTE_A0 == "0xA0"
BYTE_FF == "0xFF"

HighBytes == {BYTE_C2, BYTE_A0, BYTE_FF}

\* bytes.decode of utf-8: C2 A0 is the no-break space, a high byte out of
\* place is a UnicodeDecodeError
RECURSIVE decode_utf8(_)
decode_utf8(bs) ==
  IF bs = <<>> THEN Returned(<<>>)
  ELSE IF bs[1] \notin HighBytes
       THEN LET rest == decode_utf8(Tail(bs))
            IN IF rest.ok THEN Returned(<<bs[1]>> \o rest.val) ELSE Raised
       ELSE IF bs[1] = BYTE_C2 /\ Len(bs) > 1 /\ bs[2] = BYTE_A0
            THEN LET rest == decode_utf8(Tail(Tail(bs)))
                 IN IF rest.ok THEN Returned(<<NBSP>> \o rest.val) ELSE Raised
            ELSE Raised

\* bytes.decode of latin-1: every byte is the character of its number
decode_latin1(bs) ==
  [i \in 1..Len(bs) |->
     CASE bs[i] = BYTE_C2 -> A_CIRC
       [] bs[i] = BYTE_A0 -> NBSP
       [] bs[i] = BYTE_FF -> Y_DIAER
       [] OTHER -> bs[i]]

\* a raised exception and a returned text, with the decoders that ran
Failure(type, msg, ran) == [ok |-> FALSE, type |-> type, msg |-> msg, ran |-> ran]

Extracted(text, ran) == [ok |-> TRUE, text |-> text, ran |-> ran]

extract_text_from_txt(file) ==
  LET utf == decode_utf8(file.bytes)
  IN IF utf.ok
     THEN Extracted(clean_text(utf.val), {"utf-8"})
     ELSE Extracted(clean_text(decode_latin1(file.bytes)), {"utf-8", "latin-1"})

PDF_LIBRARY_REQUIRED ==
  <<"pypdf or PyPDF2 library is required for PDF processing. Please install with: pip install pypdf">>

PDF_NO_TEXT ==
  <<"No text could be extracted from the PDF. The file might be image-based or corrupted.">>

DOCX_LIBRARY_REQUIRED ==
  <<"python-docx", " library is required for DOCX processing. Please install it with: pip install ",
    "python-docx">>

DOCX_NO_TEXT == <<"No text could be extracted from the DOCX file.">>

extract_text_from_pdf(file, libs) ==
  IF libs \cap {"pypdf", "PyPDF2"} = {}
  THEN Failure("ValueError", PDF_LIBRARY_REQUIRED, {})
  ELSE LET reader == IF "pypdf" \in libs THEN "pypdf" ELSE "PyPDF2"
       IN IF ~file.pdf.readable
          THEN Failure("Exception", <<"Failed to process PDF: ">> \o file.pdf.error, {reader})
          ELSE LET full_text == JoinLines(file.pdf.pages)
               IN IF IsBlank(full_text)
                  THEN Failure("Exception", <<"Failed to process PDF: ">> \o PDF_NO_TEXT, {reader})
                  ELSE Extracted(clean_text(full_text), {reader})

\* the units that are not blank, in order
RECURSIVE KeepText(_)
KeepText(units) ==
  IF units = <<>> THEN <<>>
  ELSE (IF IsBlank(units[1]) THEN <<>> ELSE <<units[1]>>) \o KeepText(Tail(units))

extract_text_from_docx(file, libs) ==
  IF "docx" \notin libs
  THEN Failure("ValueError", DOCX_LIBRARY_REQUIRED, {})
  ELSE IF ~file.docx.readable
       THEN IF Contains(file.docx.error, <<"python-docx">>)
            THEN Failure("Exception", file.docx.error, {"docx"})
            ELSE Failure("Exception", <<"Failed to process DOCX: ">> \o file.docx.error, {"docx"})
       ELSE LET text_content == KeepText(file.docx.paragraphs) \o KeepText(file.docx.cells)
                full_text == JoinLines(text_content)
            IN IF IsBlank(full_text)
               THEN Failure("Exception", <<"Failed to process DOCX: ">> \o DOCX_NO_TEXT, {"docx"})
               ELSE Extracted(clean_text(full_text), {"docx"})

\* uploaded_file.name.lower().split('.')[-1]
file_extension(name) == Drop(Lower(name), RFind(Lower(name), "."))

EXT_TXT == <<"t", "x", "t">>

EXT_PDF == <<"p", "d", "f">>

EXT_DOCX == <<"d", "o", "c", "x">>

EXT_DOC == <<"d", "o", "c">>

\* an exception leaving the dispatch is raised again as a plain Exception
Reraised(ext, out) ==
  IF out.ok THEN out
  ELSE Failure("Exception", <<"Error processing ">> \o Upper(ext) \o <<" file: ">> \o out.msg,
               out.ran)

NoUpload == [none |-> TRUE]

\* every other extension is read as plain text
extract_text_lenient(file, libs) ==
  IF file = NoUpload
  THEN Failure("ValueError", <<"No file uploaded">>, {})
  ELSE LET ext == file_extension(file.name)
       IN Reraised(ext,
            IF ext = EXT_PDF THEN extract_text_from_pdf(file, libs)
            ELSE IF ext \in {EXT_DOCX, EXT_DOC} THEN extract_text_from_docx(file, libs)
            ELSE extract_text_from_txt(file))

extract_text(file, libs) ==
  IF file = NoUpload
  THEN Failure("ValueError", <<"No file uploaded">>, {})
  ELSE LET ext == file_extension(file.name)
       IN Reraised(ext,
            IF ext = EXT_TXT THEN extract_text_from_txt(file)
            ELSE IF ext = EXT_PDF THEN extract_text_from_pdf(file, libs)
            ELSE IF ext \in {EXT_DOCX, EXT_DOC} THEN extract_text_from_docx(file, libs)
            ELSE Failure("ValueError", <<"Unsupported file format: ">> \o ext, {}))

-----------------------------------------------------------------------------
(* The outbound call of analyze_resume                                     *)

\* a handler that calls the endpoint again before it gives up
outbound_calls_retry(out) == IF out.kind = "raise" THEN 2 ELSE 1

\* lines 78-90 and 146-181: create() is called once in the try block and the
\* handler does not call it again
outbound_calls(out) == 1

-----------------------------------------------------------------------------
(* The responses of the LLM endpoint that the checks draw from             *)

MaxRawLen == 3
MaxList == 17

\* every text of at most MaxRawLen of these characters
RawChars ==
  {"{", "}", "[", "]", QUOTE, "5", "null", FENCE, "score", "-", SP, NL,
   THINK_OPEN, THINK_CLOSE}

RawTexts == UNION {[1..n -> RawChars] : n \in 0..MaxRawLen}

Keyword(i) == JStr(<<"kw">> \o IntStr(i))

Priorities == <<"High", "Medium", "Low">>

\* the i-th suggestion: every third one names no category, every fourth one
\* calls its solution "suggestion", every fifth one has neither
Suggestion(i) ==
  JObj((IF i % 3 = 0 THEN <<>>
        ELSE <<[k |-> Key("category"), v |-> JStr(<<"cat">> \o IntStr(i))]>>)
       \o <<[k |-> Key("priority"), v |-> Word(Priorities[(i % 3) + 1])]>>
       \o (IF i % 5 = 0 THEN <<>>
           ELSE IF i % 4 = 0
           THEN <<[k |-> Key("suggestion"), v |-> JStr(<<"fix">> \o IntStr(i))]>>
           ELSE <<[k |-> Key("solution"), v |-> JStr(<<"fix">> \o IntStr(i))]>>))

Replacement(i) ==
  JObj(<<[k |-> Key("section"), v |-> JStr(<<"sec">> \o IntStr(i))],
         [k |-> Key("improved_text"), v |-> JStr(<<"new">> \o IntStr(i))]>>)

ListOf(Item(_), n) == JList([i \in 1..n |-> Item(i)])

Digits16 == JStr([i \in 1..16 |-> DigitChars[(i % 10) + 1]])

\* what a response may hold in the place of ats_score
ScoreValues ==
  {JInt(0 - 10), JInt(0), JInt(80), JInt(100), JInt(150), JStr(<<"8", "5">>),
   JStr(<<SP, "-", "7", SP>>), Word("abc"), JStr(<<>>), JNull, JBool(TRUE),
   JList(<<JInt(80)>>)}

\* what a response may hold in the place of a list
WrongLists == {JNull, JInt(3), Word("abc"), JStr(<<>>), Digits16, JObj(<<>>)}

Member(name, x) == <<[k |-> Key(name), v |-> x]>>

\* objects that vary the score beside a short or a wrong keyword list
ScoreObjects ==
  {JObj(sc \o mk \o ds) :
     sc \in {<<>>} \cup {Member("ats_score", x) : x \in ScoreValues},
     mk \in {<<>>, Member("matched_keywords", ListOf(Keyword, 2)),
             Member("matched_keywords", JNull)},
     ds \in {<<>>, Member("detailed_suggestions", ListOf(Suggestion, 1)),
             Member("detailed_suggestions", JList(<<Word("abc")>>))}}

ListFields ==
  {"matched_keywords", "missing_keywords", "text_replacements", "detailed_suggestions"}

ItemsOf(field, n) ==
  CASE field = "text_replacements" -> ListOf(Replacement, n)
    [] field = "detailed_suggestions" -> ListOf(Suggestion, n)
    [] OTHER -> ListOf(Keyword, n)

\* objects that vary one list field, with a score of 80
ListObjects ==
  {JObj(Member("ats_score", JInt(80)) \o Member(f, x)) :
     f \in ListFields, x \in WrongLists}
  \cup {JObj(Member(f, ItemsOf(f, n)) \o Member("ats_score", JInt(80))) :
          f \in ListFields, n \in 0..MaxList}

\* objects with a string that spells the reasoning-block markers
MarkerObjects ==
  {JObj(Member("ats_score", JInt(80)) \o Member("score_summary", JStr(x))) :
     x \in {<<THINK_OPEN, "abc", THINK_CLOSE>>, <<THINK_OPEN>>, <<THINK_CLOSE>>,
            <<THINK_CLOSE, THINK_OPEN>>}}
  \cup {JObj(Member("score_summary", JStr(<<THINK_OPEN, THINK_CLOSE>>))
             \o Member("ats_score", JInt(80)))}

Objects == ScoreObjects \cup ListObjects \cup MarkerObjects

\* the ways a model dresses the JSON text j it was asked for
Wrappings ==
  {"bare", "json fence", "plain fence", "padded", "prose before", "prose after",
   "prose around", "fence in prose", "reasoning first"}

ProseBefore == <<"Here", SP, "is", SP, "the", SP, "analysis", ":", NL>>
ProseAfter == <<NL, "Overall", SP, "score", SP, "7", SP, "of", SP, "1", "0", NL,
                "Missing", SP, "Keywords", ":", NL, "-", SP, "AWS">>

Wrap(w, j) ==
  CASE w = "bare" -> j
    [] w = "json fence" -> <<FENCE, "json", NL>> \o j \o <<NL, FENCE>>
    [] w = "plain fence" -> <<FENCE, NL>> \o j \o <<NL, FENCE>>
    [] w = "padded" -> <<SP, NL>> \o j \o <<NL, SP>>
    [] w = "prose before" -> ProseBefore \o j
    [] w = "prose after" -> j \o ProseAfter
    [] w = "prose around" -> ProseBefore \o j \o ProseAfter
    [] w = "fence in prose" ->
         ProseBefore \o <<FENCE, "json", NL>> \o j \o <<NL, FENCE>> \o ProseAfter
    [] w = "reasoning first" ->
         <<THINK_OPEN, "score", SP, "3", "{", THINK_CLOSE, NL>> \o j

TextOutcome(text, json, wrap) ==
  [kind |-> "text", text |-> text, json |-> json, wrap |-> wrap]

RaiseOutcome == [kind |-> "raise", text |-> <<>>, json |-> <<>>, wrap |-> "none"]

RawOutcomes == {TextOutcome(x, <<>>, "raw") : x \in RawTexts}

JsonOutcomes == {TextOutcome(Wrap(w, Render(o)), Render(o), w) : o \in Objects, w \in Wrappings}

LLMOutcomes == RawOutcomes \cup JsonOutcomes \cup {RaiseOutcome}

-----------------------------------------------------------------------------
(* One analysis request                                                    *)

NoResult == [none |-> TRUE]

NoReport == [none |-> TRUE]

NoText == [none |-> TRUE]

NothingUploaded == upload = NoUpload /\ installed = {} /\ extracted = NoText

\* os.getenv gives None for a variable that is not set
NoKey == [set |-> FALSE, val |-> <<>>]

\* the application is not running
AppIdle ==
  /\ api_key = NoKey
  /\ llm_available = "unset"
  /\ job_desc = <<>>
  /\ page = "none"
  /\ actions = 0
  /\ requests = 0

InitNormalize ==
  /\ llm_out \in LLMOutcomes
  /\ result = NoResult
  /\ calls = 0
  /\ report = NoReport
  /\ rescanned = NoResult
  /\ NothingUploaded
  /\ AppIdle
  /\ pc = "ready"

\* analyze_resume(resume_text, job_description): the one outbound call and
\* what the function returns for the call's outcome
AnalyzeResume ==
  /\ pc = "ready"
  /\ calls' = calls + outbound_calls(llm_out)
  /\ result' = analyze_resume(llm_out)
  /\ pc' = "done"
  /\ UNCHANGED <<llm_out, report, rescanned, upload, installed, extracted>>
  /\ UNCHANGED appVars

NextNormalize == AnalyzeResume

SpecNormalize == InitNormalize /\ [][NextNormalize]_vars

-----------------------------------------------------------------------------
(* One analysis request whose response is free text, line by line          *)

MaxLines == 3
MaxBullets == 11

MissingHeader == <<"Missing", SP, "Keywords", ":">>

SectionHeaders == {MissingHeader, <<"Matched", SP, "Keywords", ":">>, <<"Suggestions", ":">>}

ResponseLines ==
  SectionHeaders
  \cup {<<"-", SP, "AWS">>, <<"*", SP, "Docker">>, <<BULLET, SP, "Go">>,
        <<MOJI1, MOJI2, MOJI3, SP, "Rust">>, <<SP, SP, "-", SP, "SQL", SP>>,
        <<"Score", ":", SP, "8", "5">>, <<"Thanks">>}

LineTexts == {JoinLines(ls) : ls \in UNION {[1..n -> ResponseLines] : n \in 0..MaxLines}}

\* a header and n bullet lines under it
BulletTexts ==
  {JoinLines(<<h>> \o [i \in 1..n |-> <<b, SP>> \o Keyword(i).v]) :
     h \in SectionHeaders, b \in {"-", "*", BULLET}, n \in 0..MaxBullets}

FallbackOutcomes == {TextOutcome(x, <<>>, "lines") : x \in LineTexts \cup BulletTexts}

InitFallback ==
  /\ llm_out \in FallbackOutcomes
  /\ result = NoResult
  /\ calls = 0
  /\ report = NoReport
  /\ rescanned = NoResult
  /\ NothingUploaded
  /\ AppIdle
  /\ pc = "ready"

SpecFallback == InitFallback /\ [][NextNormalize]_vars

-----------------------------------------------------------------------------
(* A result written as the text report and the report read back            *)

MaxReportKeywords == 2
MaxReportSuggestions == 3

MissingKeyword(i) == JStr(<<"gap">> \o IntStr(i))

NumberedSteps ==
  JStr(<<"1", ".", SP, "Add", SP, "AWS", ".", SP, "2", ".", SP, "Fix", SP,
         "formatting", ".">>)

\* a step of three characters
ShortStep ==
  JStr(<<"1", ".", SP, "Go", ".", SP, "2", ".", SP, "Fix", SP, "formatting", ".">>)

\* a step whose text ends in a number and a full stop
DigitInStep ==
  JStr(<<"1", ".", SP, "Add", SP, "Python", SP, "3", ".", SP, "2", ".", SP, "Fix", SP,
         "formatting", ".">>)

\* words before the first step
StepsAfterWords ==
  JStr(<<"Plan", ":", SP, "1", ".", SP, "Add", SP, "AWS", ".", SP, "2", ".", SP, "Fix",
         SP, "formatting", ".">>)

SingleStep == JStr(<<"1", ".", SP, "Add", SP, "AWS", ".">>)

NextStepsTexts == {ShortStep, DigitInStep, StepsAfterWords, SingleStep}

\* a suggestion of a priority the prompt does not name
PrioritySuggestion(p) ==
  JObj(<<[k |-> Key("category"), v |-> Word("Skills")],
         [k |-> Key("priority"), v |-> Word(p)],
         [k |-> Key("solution"), v |-> Word("Add AWS")]>>)

\* a suggestion without a priority
UnrankedSuggestion ==
  JObj(<<[k |-> Key("category"), v |-> Word("Format")],
         [k |-> Key("solution"), v |-> Word("Use one column")]>>)

SuggestionLists ==
  {JList(<<PrioritySuggestion("Critical")>>),
   JList(<<PrioritySuggestion("high"), Suggestion(2)>>),
   JList(<<Suggestion(3), UnrankedSuggestion, Suggestion(1)>>)}

ReportResults ==
  {[ats_score |-> sc,
    score_summary |-> Word("Good fit"),
    matched_keywords |-> ListOf(Keyword, m),
    missing_keywords |-> ListOf(MissingKeyword, n),
    text_replacements |-> ListOf(Replacement, tr),
    detailed_suggestions |-> ListOf(Suggestion, ds),
    score_breakdown |-> JObj(<<>>),
    score_explanation |-> se,
    next_steps |-> ns,
    suggestions |-> JList(<<>>),
    feedback |-> se] :
     sc \in {0, 50, 80}, m \in 0..MaxReportKeywords, n \in 0..MaxReportKeywords,
     tr \in 0..1, ds \in 0..MaxReportSuggestions,
     se \in {JStr(<<>>), Word("Strong match")},
     ns \in {JStr(<<>>), Word("Keep going"), NumberedSteps}}
  \cup {[SampleResult EXCEPT !.next_steps = ns] : ns \in NextStepsTexts}
  \cup {[SampleResult EXCEPT !.detailed_suggestions = ds] : ds \in SuggestionLists}
  \cup {SampleResult, parse_fallback_response(<<>>)}

NoOutcome == [kind |-> "none", text |-> <<>>, json |-> <<>>, wrap |-> "none"]

InitReport ==
  /\ llm_out = NoOutcome
  /\ result \in ReportResults
  /\ calls = 0
  /\ report = NoReport
  /\ rescanned = NoResult
  /\ NothingUploaded
  /\ AppIdle
  /\ pc = "result"

\* text_report = generate_text_report(result) (app.py line 302)
GenerateReport ==
  /\ pc = "result"
  /\ report' = generate_text_report(result)
  /\ pc' = "reported"
  /\ UNCHANGED <<llm_out, result, calls, rescanned, upload, installed, extracted>>
  /\ UNCHANGED appVars

\* the report text handed to the fallback parser
Rescan ==
  /\ pc = "reported"
  /\ report.ok
  /\ rescanned' = parse_fallback_response(report.val)
  /\ pc' = "rescanned"
  /\ UNCHANGED <<llm_out, result, calls, report, upload, installed, extracted>>
  /\ UNCHANGED appVars

NextReport == GenerateReport \/ Rescan

SpecReport == InitReport /\ [][NextReport]_vars

-----------------------------------------------------------------------------
(* One uploaded file handed to extract_text                                *)

MaxBytes == 3
MaxPages == 2
MaxUnits == 2

FileBytes == {"a", SP, NL, "$", BYTE_C2, BYTE_A0, BYTE_FF}

ByteTexts == UNION {[1..n -> FileBytes] : n \in 0..MaxBytes}

PageTexts == {<<>>, <<SP>>, <<NL, TAB>>, <<"a", NL, "$", "b">>}

PageLists == UNION {[1..n -> PageTexts] : n \in 0..MaxPages}

UnitTexts == {<<>>, <<SP>>, <<"a", SP, SP, "b">>}

UnitLists == UNION {[1..n -> UnitTexts] : n \in 0..MaxUnits}

\* what the PDF reader and the DOCX reader make of bytes that are no such file
NotPdf == [readable |-> FALSE, error |-> <<"EOF marker not found">>, pages |-> <<>>]

NotDocx ==
  [readable |-> FALSE, error |-> <<"File is not a zip file">>,
   paragraphs |-> <<>>, cells |-> <<>>]

DocxUnusable ==
  [readable |-> FALSE, error |-> <<"python-docx", " cannot open this package">>,
   paragraphs |-> <<>>, cells |-> <<>>]

TextContents == {[bytes |-> b, pdf |-> NotPdf, docx |-> NotDocx] : b \in ByteTexts}

PdfContents ==
  {[bytes |-> <<"%", "P", "D", "F">>,
    pdf |-> [readable |-> TRUE, error |-> <<>>, pages |-> ps],
    docx |-> NotDocx] : ps \in PageLists}

DocxContents ==
  {[bytes |-> <<"P", "K">>,
    pdf |-> NotPdf,
    docx |-> [readable |-> TRUE, error |-> <<>>, paragraphs |-> ps, cells |-> cs]] :
     ps \in UnitLists, cs \in UnitLists}
  \cup {[bytes |-> <<"P", "K">>, pdf |-> NotPdf, docx |-> DocxUnusable]}

FileNames ==
  {<<"c", "v", ".", "t", "x", "t">>,
   <<"C", "V", ".", "T", "X", "T">>,
   <<"c", "v", ".", "p", "d", "f">>,
   <<"c", "v", ".", "d", "o", "c", "x">>,
   <<"c", "v", ".", "D", "o", "c">>,
   <<"c", "v", ".", "r", "t", "f">>,
   <<"c", "v", ".", "p", "d", "f", ".", "b", "a", "k">>,
   <<"c", "v", ".", "b", "a", "k", ".", "t", "x", "t">>,
   <<"c", "v", ".">>,
   <<"c", "v">>}

Uploads ==
  {[name |-> n, bytes |-> c.bytes, pdf |-> c.pdf, docx |-> c.docx] :
     n \in FileNames, c \in TextContents \cup PdfContents \cup DocxContents}

Installs == {{}, {"pypdf"}, {"PyPDF2"}, {"docx"}, {"pypdf", "PyPDF2", "docx"}}

InitExtract ==
  /\ llm_out = NoOutcome
  /\ result = NoResult
  /\ calls = 0
  /\ report = NoReport
  /\ rescanned = NoResult
  /\ upload \in Uploads \cup {NoUpload}
  /\ installed \in Installs
  /\ extracted = NoText
  /\ AppIdle
  /\ pc = "uploaded"

\* resume_text = extract_text(uploaded_file) (app.py line 52)
ExtractText ==
  /\ pc = "uploaded"
  /\ extracted' = extract_text(upload, installed)
  /\ pc' = "extracted"
  /\ UNCHANGED <<llm_out, result, calls, report, rescanned, upload, installed>>
  /\ UNCHANGED appVars

NextExtract == ExtractText

SpecExtract == InitExtract /\ [][NextExtract]_vars

-----------------------------------------------------------------------------
(* app.py: the page.  Streamlit runs the script once at the start and once *)
(* more after every user action.                                           *)

\* a client module that loads whatever the key is
llm_import_unchecked(key) == "True"

\* llm_client.py lines 15-21 and app.py lines 5-11: the import raises
\* ValueError when the key is None or empty, and LLM_AVAILABLE records it
llm_import(key) == IF key.set /\ key.val # <<>> THEN "True" ELSE "False"

MaxActions == 4

ApiKeys == {NoKey, [set |-> TRUE, val |-> <<>>], [set |-> TRUE, val |-> <<"nvapi-key">>]}

ScoreOnly == Render(JObj(Member("ats_score", JInt(80))))

AppOutcomes ==
  {RaiseOutcome, TextOutcome(<<>>, <<>>, "raw"), TextOutcome(ScoreOnly, ScoreOnly, "bare")}

JobTexts == {<<>>, <<SP, NL>>, <<"Python", SP, "developer">>}

\* the uploader takes pdf, docx and txt files (lines 43-47)
AppFiles ==
  {[name |-> n, bytes |-> c.bytes, pdf |-> c.pdf, docx |-> c.docx] :
     n \in {<<"c", "v", ".", "t", "x", "t">>, <<"c", "v", ".", "p", "d", "f">>},
     c \in {[bytes |-> <<"a">>, pdf |-> NotPdf, docx |-> NotDocx],
            [bytes |-> <<SP, NL>>, pdf |-> NotPdf, docx |-> NotDocx],
            [bytes |-> <<"%", "P", "D", "F">>,
             pdf |-> [readable |-> TRUE, error |-> <<>>, pages |-> <<<<"a">>>>],
             docx |-> NotDocx]}}

\* a page that takes the message of a failed extraction for the resume
resume_text_unchecked(file, out) ==
  IF file = NoUpload THEN <<>> ELSE IF out.ok THEN out.text ELSE out.msg

\* lines 49-69: resume_text stays empty without a file and when the
\* extraction raised
resume_text(file, out) ==
  IF file = NoUpload THEN <<>> ELSE IF out.ok THEN out.text ELSE <<>>

InitApp ==
  /\ llm_out = NoOutcome
  /\ result = NoResult
  /\ calls = 0
  /\ report = NoReport
  /\ rescanned = NoResult
  /\ upload = NoUpload
  /\ installed \in {{}, {"pypdf", "PyPDF2", "docx"}}
  /\ extracted = NoText
  /\ api_key \in ApiKeys
  /\ llm_available = "unset"
  /\ job_desc = <<>>
  /\ page = "loading"
  /\ actions = 0
  /\ requests = 0
  /\ pc = "app"

reqVars == <<llm_out, result, calls, requests>>

\* the first script run: the import of utils.llm_client, then main()
LoadApp ==
  /\ page = "loading"
  /\ llm_available' = llm_import(api_key)
  /\ page' = IF llm_available' = "True" THEN "form" ELSE "stopped"
  /\ UNCHANGED <<reqVars, report, rescanned, upload, installed, extracted,
                 api_key, job_desc, actions, pc>>

\* a script run while LLM_AVAILABLE is False ends at st.stop() (line 34)
Rerun ==
  /\ page = "stopped"
  /\ actions < MaxActions
  /\ actions' = actions + 1
  /\ UNCHANGED <<reqVars, report, rescanned, upload, installed, extracted,
                 api_key, llm_available, job_desc, page, pc>>

Offered == page \in {"form", "need resume", "need job", "report"}

\* lines 42-76: a file is chosen and the script run extracts its text
UploadFile ==
  /\ Offered
  /\ actions < MaxActions
  /\ \E f \in AppFiles :
       /\ f # upload
       /\ upload' = f
       /\ extracted' = extract_text(f, installed)
  /\ page' = "form"
  /\ actions' = actions + 1
  /\ UNCHANGED <<reqVars, report, rescanned, installed, api_key, llm_available,
                 job_desc, pc>>

\* the file is taken away: uploaded_file is None in the next script run
RemoveFile ==
  /\ Offered
  /\ actions < MaxActions
  /\ upload # NoUpload
  /\ upload' = NoUpload
  /\ extracted' = NoText
  /\ page' = "form"
  /\ actions' = actions + 1
  /\ UNCHANGED <<reqVars, report, rescanned, installed, api_key, llm_available,
                 job_desc, pc>>

\* lines 78-86: the job description box is edited
EditJob ==
  /\ Offered
  /\ actions < MaxActions
  /\ \E j \in JobTexts : j # job_desc /\ job_desc' = j
  /\ page' = "form"
  /\ actions' = actions + 1
  /\ UNCHANGED <<reqVars, report, rescanned, upload, installed, extracted,
                 api_key, llm_available, pc>>

\* lines 92-104: the button
Click ==
  /\ Offered
  /\ actions < MaxActions
  /\ actions' = actions + 1
  /\ IF resume_text(upload, extracted) = <<>>
     THEN page' = "need resume" /\ UNCHANGED reqVars
     ELSE IF Strip(job_desc) = <<>>
     THEN page' = "need job" /\ UNCHANGED reqVars
     ELSE \E out \in AppOutcomes :
            /\ llm_out' = out
            /\ requests' = requests + 1
            /\ calls' = calls + outbound_calls(out)
            /\ result' = analyze_resume(out)
            /\ page' = "report"
  /\ UNCHANGED <<report, rescanned, upload, installed, extracted, api_key,
                 llm_available, job_desc, pc>>

NextApp == LoadApp \/ Rerun \/ UploadFile \/ RemoveFile \/ EditJob \/ Click

SpecApp == InitApp /\ [][NextApp]_vars

-----------------------------------------------------------------------------
(* Properties of one analysis request (SpecNormalize)                      *)

Done == pc = "done"

Min(a, b) == IF a < b THEN a ELSE b

Max(a, b) == IF a > b THEN a ELSE b

\* what json.loads makes of the response once it is cleaned
CleanParse == json_loads(clean_response(llm_out.text))

ParsesAsObject == llm_out.kind = "text" /\ CleanParse.ok /\ CleanParse.val.t = "obj"

Supplied(field) == Get(CleanParse.val, Key(field), JNull)

CommonFields == {"ats_score", "matched_keywords", "missing_keywords", "suggestions", "feedback"}

\* C1: whatever the call returns or raises, analyze_resume returns a result
\* record (the fields every path fills, with a score within 0..100) and lets
\* no exception out.
C1_NormalizerTotal ==
  Done => /\ CommonFields \subseteq DOMAIN result
          /\ result.ats_score \in 0..100

\* C1 witness: a response that is JSON but no object (its top level is a
\* list) has been answered with a result record.
C1_Witness ==
  /\ Done
  /\ llm_out.kind = "text"
  /\ CleanParse.ok
  /\ CleanParse.val.t = "list"
  /\ CommonFields \subseteq DOMAIN result

\* C2 as claimed: when the response parses as a JSON object whose ats_score
\* is an integer s, the returned ats_score is min(100, max(0, s)).
C2_ScoreClamped ==
  (Done /\ ParsesAsObject /\ Supplied("ats_score").t = "int")
    => result.ats_score = Min(100, Max(0, Supplied("ats_score").v))

Limit(field) ==
  IF field \in {"matched_keywords", "missing_keywords"} THEN 15 ELSE 10

\* C3 as claimed: when the response parses as a JSON object, each of the four
\* list fields of the result holds the first min(n, limit) entries of the
\* supplied list, in order (limit 15 for the keyword lists, 10 for the
\* replacements and the detailed suggestions).
C3_ListsTruncated ==
  (Done /\ ParsesAsObject)
    => \A f \in ListFields :
         Supplied(f).t = "list"
           => result[f] = JList([i \in 1..Min(Len(Supplied(f).v), Limit(f)) |->
                                   Supplied(f).v[i]])

\* the wrappings C4 speaks of: a fence with or without the language tag,
\* blanks, prose without a brace or a reasoning-block marker
ClaimedWrappings ==
  {"json fence", "plain fence", "padded", "prose before", "prose after",
   "prose around", "fence in prose"}

SameAsAlone ==
  /\ clean_response(llm_out.text) = llm_out.json
  /\ result = analyze_resume(TextOutcome(llm_out.json, llm_out.json, "bare"))

\* C4 as claimed: for every JSON object text J, J inside a wrapping is
\* normalised as J alone is.
C4_WrappingIgnored ==
  (Done /\ llm_out.wrap \in ClaimedWrappings) => SameAsAlone

HoldsReasoningBlock(j) == THINK_OPEN \in Range(j) /\ THINK_CLOSE \in Range(j)

\* C4 amended: for every JSON object text J that does not spell both
\* reasoning-block markers, J inside a wrapping is normalised as J alone is:
\* the text handed to json.loads is J and the result is that of J.
C4_WrappingIgnoredWithoutMarkers ==
  (Done /\ llm_out.wrap \in ClaimedWrappings /\ ~HoldsReasoningBlock(llm_out.json))
    => SameAsAlone

\* C4 witness: an object in a json fence between two pieces of prose was read
\* on the JSON path with the score 80 it holds.
C4_Witness ==
  /\ Done
  /\ llm_out.wrap = "fence in prose"
  /\ ~HoldsReasoningBlock(llm_out.json)
  /\ "score_summary" \in DOMAIN result
  /\ result.ats_score = 80
  /\ result # SampleResult

\* no line of the text is a section header or starts with a bullet, and no
\* integer follows the word score
NoHeuristicPattern(text) ==
  /\ ~\E i \in 1..Len(text), j \in 1..Len(text) :
        i < j /\ text[i] \in HasScore /\ IsDigit(text[j])
  /\ \A n \in 1..Len(SplitLines(text)) :
       LET line == Strip(SplitLines(text)[n])
       IN /\ ~(Holds(line, HasMatched) /\ Holds(line, HasKeyword))
          /\ ~(Holds(line, HasMissing) /\ Holds(line, HasKeyword))
          /\ ~Holds(line, HasSuggestion)
          /\ ~Holds(line, HasRecommend)
          /\ (line = <<>> \/ line[1] \notin {BULLET, MOJI1, "-", "*"})

MinimalResult(suggestions) ==
  /\ result.ats_score = 50
  /\ result.matched_keywords = JList(<<>>)
  /\ result.missing_keywords = JList(<<>>)
  /\ result.suggestions = JList(suggestions)
  /\ result.feedback = FALLBACK_FEEDBACK

\* C6 as claimed: a response that is not valid JSON and that no heuristic
\* pattern matches gives score 50, empty keyword lists, an empty suggestions
\* list and the generic feedback.
C6_MinimalResult ==
  (Done /\ llm_out.kind = "text" /\ ~json_loads(llm_out.text).ok
     /\ NoHeuristicPattern(llm_out.text))
    => MinimalResult(<<>>)

\* C6 amended: a response whose cleaned text (reasoning block, fence and
\* prose removed) is not valid JSON and that no heuristic pattern matches
\* gives score 50, empty keyword lists, the generic feedback, and a
\* suggestions list that holds the one generic suggestion.
C6_MinimalResultWithDefaultSuggestion ==
  (Done /\ llm_out.kind = "text" /\ ~CleanParse.ok
     /\ NoHeuristicPattern(llm_out.text))
    => MinimalResult(<<DEFAULT_SUGGESTION>>)

\* C6 witness: the empty response has been answered by the fallback parser.
C6_Witness ==
  /\ Done
  /\ llm_out.kind = "text"
  /\ llm_out.text = <<>>
  /\ result.feedback = FALLBACK_FEEDBACK

\* C10: a request makes exactly one outbound call and ends with a result;
\* when the call raised, the result is the sample with score 65.
C10_SingleAttemptThenSample ==
  Done => /\ calls = 1
          /\ result # NoResult
          /\ result # Propagated
          /\ (llm_out.kind = "raise" => result = SampleResult /\ result.ats_score = 65)

\* C10 witness: a call that raised has been answered with the sample.
C10_Witness ==
  /\ Done
  /\ llm_out.kind = "raise"
  /\ calls = 1
  /\ result.ats_score = 65

-----------------------------------------------------------------------------
(* Properties of the fallback parser (SpecFallback) and of the report      *)
(* (SpecReport)                                                            *)

ResponseLinesOf(text) == SplitLines(text)

IsClaimedBullet(line) == line # <<>> /\ line[1] \in {BULLET, "-", "*"}

\* C5 as claimed: on a response that is not valid JSON and is the line
\* Missing Keywords: followed by bullet lines, missing_keywords holds the
\* content of every bullet line (marker removed, trimmed), in order, up to 10.
C5_MissingKeywordsCollected ==
  LET lines == ResponseLinesOf(llm_out.text)
  IN (/\ Done
      /\ llm_out.kind = "text"
      /\ ~CleanParse.ok
      /\ Len(lines) >= 2
      /\ lines[1] = MissingHeader
      /\ \A i \in 2..Len(lines) : IsClaimedBullet(Strip(lines[i])))
       => result.missing_keywords
            = JList([i \in 1..Min(Len(lines) - 1, 10) |->
                       JStr(Strip(Tail(Strip(lines[i + 1]))))])

\* C7 as claimed: the report of a result, read back by the fallback parser,
\* gives the score and both keyword lists of the result.
C7_ReportRoundTrip ==
  pc = "rescanned"
    => /\ rescanned.ats_score = result.ats_score
       /\ rescanned.matched_keywords = result.matched_keywords
       /\ rescanned.missing_keywords = result.missing_keywords

-----------------------------------------------------------------------------
(* Properties of extract_text (SpecExtract)                                *)

SupportedExtensions == {EXT_TXT, EXT_PDF, EXT_DOCX, EXT_DOC}

IsUnsupportedFormat(out) == ~out.ok /\ Contains(out.msg, <<"Unsupported file format: ">>)

IsEmptyContent(out) ==
  ~out.ok /\ (Contains(out.msg, PDF_NO_TEXT) \/ Contains(out.msg, DOCX_NO_TEXT))

IsMissingDecoder(out) ==
  ~out.ok /\ (Contains(out.msg, PDF_LIBRARY_REQUIRED) \/ Contains(out.msg, DOCX_LIBRARY_REQUIRED))

\* the content that the decoder of the file's format yields, if it yields one
DecodedContent(file, libs) ==
  LET ext == file_extension(file.name)
  IN IF ext = EXT_TXT
     THEN (IF decode_utf8(file.bytes).ok
           THEN decode_utf8(file.bytes)
           ELSE Returned(decode_latin1(file.bytes)))
     ELSE IF ext = EXT_PDF
     THEN (IF libs \cap {"pypdf", "PyPDF2"} # {} /\ file.pdf.readable
           THEN Returned(JoinLines(file.pdf.pages))
           ELSE Raised)
     ELSE IF ext \in {EXT_DOCX, EXT_DOC}
     THEN (IF "docx" \in libs /\ file.docx.readable
           THEN Returned(JoinLines(file.docx.paragraphs \o file.docx.cells))
           ELSE Raised)
     ELSE Raised

WhitespaceOnly(file, libs) ==
  LET content == DecodedContent(file, libs)
  IN content.ok /\ content.val # <<>> /\ IsBlank(content.val)

\* C8 as claimed: for a txt, pdf, docx or doc file whose decoded content is
\* whitespace only, extract_text fails with the empty-content error and
\* returns no text.
C8_WhitespaceOnlyFails ==
  (pc = "extracted" /\ upload # NoUpload /\ WhitespaceOnly(upload, installed))
    => IsEmptyContent(extracted)

-----------------------------------------------------------------------------
(* Properties of the shape of the result (SpecNormalize)                   *)

ResultFields ==
  {"ats_score", "score_summary", "matched_keywords", "missing_keywords",
   "text_replacements", "detailed_suggestions", "score_breakdown",
   "score_explanation", "next_steps", "suggestions", "feedback"}

\* C11 as claimed: every result the normaliser returns, from the JSON path
\* or from the heuristic fallback, carries the same eleven fields.
C11_SameFields == Done => DOMAIN result = ResultFields

-----------------------------------------------------------------------------
(* Properties of the text report (SpecReport)                              *)

Reported == pc \in {"reported", "rescanned"} /\ report.ok

SectionOrder ==
  <<"Overall ATS Score", "Matched Keywords", "Missing Critical Keywords",
    "Text Replacements (Resume Improvements)", "Detailed Suggestions",
    "Score Breakdown Explanation", "Next Steps">>

\* the lines of the report that are the header h
SectionLines(h) ==
  LET lines == SplitLines(report.val)
  IN {n \in 1..Len(lines) : lines[n] = <<h>>}

\* C12: in the report the section headers stand in the fixed order (score
\* header, matched keywords, missing keywords, text replacements, detailed
\* suggestions, score explanation, next steps), each at most once, and the
\* score header and both keyword sections are always there.
C12_SectionOrder ==
  Reported =>
    /\ \A k \in 1..3 : SectionLines(SectionOrder[k]) # {}
    /\ \A k \in 1..7 : Cardinality(SectionLines(SectionOrder[k])) <= 1
    /\ \A i \in 1..7, j \in 1..7 :
         i < j => \A a \in SectionLines(SectionOrder[i]), b \in SectionLines(SectionOrder[j]) :
                    a < b

\* C12 witness: a report that holds all seven sections, for a result with
\* empty keyword lists.
C12_Witness ==
  /\ Reported
  /\ result.matched_keywords = JList(<<>>)
  /\ result.missing_keywords = JList(<<>>)
  /\ \A k \in 1..7 : SectionLines(SectionOrder[k]) # {}

-----------------------------------------------------------------------------
(* Properties of the page (SpecApp)                                        *)

KeyConfigured == api_key.set /\ api_key.val # <<>>

\* C13: without a configured API key the application stops at its first
\* script run, before the button is offered, and whatever the user does no
\* analysis request and no outbound call is ever made.
C13_NoKeyNoCall ==
  (pc = "app" /\ ~KeyConfigured)
    => /\ page \in {"loading", "stopped"}
       /\ llm_available \in {"unset", "False"}
       /\ requests = 0
       /\ calls = 0
       /\ result = NoResult

\* C13 witness: the key is not set, the page has stopped and the user has
\* acted as often as the bound allows.
C13_Witness ==
  /\ pc = "app"
  /\ api_key = NoKey
  /\ page = "stopped"
  /\ llm_available = "False"
  /\ actions = MaxActions

-----------------------------------------------------------------------------
(* More properties of one analysis request (SpecNormalize)                 *)

\* C14 as claimed: when the call returned a text, whatever the text, the
\* result is built from it and is not the hardcoded sample result.
C14_SampleOnlyOnCallFailure ==
  (Done /\ llm_out.kind = "text") => result # SampleResult

\* the reasoning-block step as C15 describes it: the block ends at the first
\* closing marker after the first opening marker
ClaimedThinkStep(text) ==
  LET c == Strip(text)
      open == Find(c, THINK_OPEN)
      closes == {i \in 1..Len(c) : i > open /\ c[i] = THINK_CLOSE}
  IN IF open = 0 \/ closes = {} THEN c
     ELSE Strip(Drop(c, CHOOSE i \in closes : \A j \in closes : i <= j))

\* C15 as claimed: the text that the reasoning-block step passes on is the
\* stripped response without everything up to the closing marker that
\* follows the opening marker, and the stripped response itself when there
\* is no opening marker or no closing marker after it.
C15_ThinkBlockRemoved ==
  (Done /\ llm_out.kind = "text")
    => strip_think(llm_out.text) = ClaimedThinkStep(llm_out.text)

\* the score as C16 describes it: the first integer after the first
\* occurrence of the word, on whatever line
ClaimedScore(text) ==
  LET words == {i \in 1..Len(text) : text[i] \in HasScore}
      first == CHOOSE i \in words : \A k \in words : i <= k
      digits == {j \in 1..Len(text) : j > first /\ IsDigit(text[j])}
      j == CHOOSE a \in digits : \A b \in digits : a <= b
  IN IF words = {} \/ digits = {} THEN 50
     ELSE Min(100, Max(0, DigitsVal(SubSeq(text, j, DigitRunEnd(text, j)))))

\* C16 as claimed: on the heuristic fallback the score is the first integer
\* after the first occurrence of score, on the same line or on a later one,
\* clamped to 0..100, and 50 when no integer follows.
C16_ScoreAfterWord ==
  (Done /\ llm_out.kind = "text" /\ ~CleanParse.ok)
    => result.ats_score = ClaimedScore(clean_response(llm_out.text))

-----------------------------------------------------------------------------
(* More properties of the fallback parser (SpecFallback)                   *)

\* the list that the lines under a section header are collected into
ListOfHeader(h) ==
  CASE Holds(h, HasMatched) -> "matched_keywords"
    [] Holds(h, HasMissing) -> "missing_keywords"
    [] OTHER -> "suggestions"

IsHeaderLine(line) ==
  \/ Holds(line, HasMatched) /\ Holds(line, HasKeyword)
  \/ Holds(line, HasMissing) /\ Holds(line, HasKeyword)
  \/ Holds(line, HasSuggestion)
  \/ Holds(line, HasRecommend)

\* the text is one section header and, under it, lines that each start with
\* one of the markers and are no header themselves
IsBulletRun(text, markers) ==
  LET lines == SplitLines(text)
  IN /\ lines[1] \in SectionHeaders
     /\ \A i \in 2..Len(lines) :
          /\ Strip(lines[i]) # <<>>
          /\ Strip(lines[i])[1] \in markers
          /\ ~IsHeaderLine(Strip(lines[i]))

\* the first min(n, cap) of the n lines under the header, each without its
\* marker and trimmed
FirstItems(text, cap) ==
  LET lines == SplitLines(text)
  IN [i \in 1..Min(Len(lines) - 1, cap) |-> JStr(Strip(Tail(Strip(lines[i + 1]))))]

CapOf(list) == IF list = "suggestions" THEN 8 ELSE 10

-----------------------------------------------------------------------------
(* Properties of the legacy suggestions (SpecNormalize)                    *)

\* the result was built by lines 124-138
JsonPath == Done /\ ParsesAsObject /\ "score_summary" \in DOMAIN result /\ result # SampleResult

\* C18 as claimed: on the JSON path the legacy suggestions list has one
\* entry per entry of the detailed_suggestions list of the result, in the
\* same order, each the text category: solution of that suggestion, the
\* category being General when the suggestion names none.
C18_LegacyPerDetailed ==
  (JsonPath /\ result.detailed_suggestions.t = "list")
    => /\ Len(result.suggestions.v) = Len(result.detailed_suggestions.v)
       /\ \A i \in 1..Len(result.detailed_suggestions.v) :
            LET item == result.detailed_suggestions.v[i]
            IN (i <= Len(result.suggestions.v) /\ HasKey(item, Key("solution")))
                 => result.suggestions.v[i]
                      = JStr(PyStr(Get(item, Key("category"), Word("General")))
                             \o <<":", SP>> \o PyStr(Get(item, Key("solution"), JNull)))

-----------------------------------------------------------------------------
(* Properties of the next steps of the report (SpecReport)                 *)

\* the place where p starts in s, 0 when it does not occur
IndexOf(s, p) ==
  LET at == {i \in 1..(Len(s) - Len(p) + 1) : SubSeq(s, i, i + Len(p) - 1) = p}
  IN IF at = {} THEN 0 ELSE CHOOSE i \in at : \A j \in at : i <= j

StepMarker(k) == IntStr(k) \o <<".">>

\* the texts of step k and of the steps after it, s being what follows the
\* marker of step k
RECURSIVE StepsFrom(_, _)
StepsFrom(s, k) ==
  LET i == IndexOf(s, StepMarker(k + 1))
  IN IF i = 0 THEN <<Strip(s)>>
     ELSE <<Strip(SubSeq(s, 1, i - 1))>>
          \o StepsFrom(Drop(s, i + Len(StepMarker(k + 1)) - 1), k + 1)

\* the numbered steps of a text: what stands after 1., after 2., ...
NumberedStepsOf(s) ==
  LET i == IndexOf(s, StepMarker(1))
  IN IF i = 0 THEN <<>> ELSE StepsFrom(Drop(s, i + 1), 1)

NextStepsText == RGet(result, "next_steps", JStr(<<>>))

\* the lines of the report between the Next Steps header and the closing
\* empty line
NextStepsLines ==
  LET lines == SplitLines(report.val)
      h == CHOOSE n \in 1..Len(lines) : lines[n] = <<"Next Steps">>
  IN SubSeq(lines, h + 1, Len(lines) - 1)

AsBullets(steps) == [i \in 1..Len(steps) |-> <<BULLET, SP>> \o steps[i]]

HasBothMarkers(s) == Contains(s, StepMarker(1)) /\ Contains(s, StepMarker(2))

\* C19 as claimed: a next_steps text with both 1. and 2. is written as one
\* bullet per numbered step, in order, with the whole text of every step;
\* any other text that is not empty is written as it is, on one line.
C19_StepsAsBullets ==
  (Reported /\ NextStepsText.t = "str" /\ NextStepsText.v # <<>>)
    => NextStepsLines = IF HasBothMarkers(NextStepsText.v)
                        THEN AsBullets(NumberedStepsOf(NextStepsText.v))
                        ELSE <<NextStepsText.v>>

-----------------------------------------------------------------------------
(* Properties of clean_text (SpecExtract)                                  *)

\* every whitespace character of t is a space, no two spaces are adjacent
\* and none stands first or last
SingleSpaced(t) ==
  /\ \A i \in 1..Len(t) : t[i] \in UnicodeSpace => t[i] = SP
  /\ \A i \in 1..(Len(t) - 1) : ~(t[i] = SP /\ t[i + 1] = SP)
  /\ t # <<>> => (t[1] # SP /\ t[Len(t)] # SP)

OnlyAllowed(t) == \A i \in 1..Len(t) : IsAllowed(t[i])

\* C20: the text clean_text returns holds no whitespace but single spaces,
\* none of them first or last, and no character outside the allow-list, and
\* clean_text leaves it as it is.
C20_CleanTextNormalForm ==
  (pc = "extracted" /\ extracted.ok)
    => /\ SingleSpaced(extracted.text)
       /\ OnlyAllowed(extracted.text)
       /\ clean_text(extracted.text) = extracted.text

\* C20 witness: a text file of a letter, a line break and a dollar sign is
\* read as the letter alone: the dollar sign became a space next to the
\* space of the line break, and both went.
C20_Witness ==
  /\ pc = "extracted"
  /\ extracted.ok
  /\ upload.name = <<"c", "v", ".", "t", "x", "t">>
  /\ upload.bytes = <<"a", NL, "$">>
  /\ extracted.text = <<"a">>

-----------------------------------------------------------------------------
(* Properties of the detailed suggestions of the report (SpecReport)       *)

DetailedSuggestions == RGet(result, "detailed_suggestions", JList(<<>>))

\* the lines of the report under the Detailed Suggestions header, up to the
\* next header or the end; none when the header is missing
SuggestionLines ==
  LET lines == SplitLines(report.val)
      heads == SectionLines("Detailed Suggestions")
      later == SectionLines("Score Breakdown Explanation") \cup SectionLines("Next Steps")
  IN IF heads = {} THEN <<>>
     ELSE LET h == CHOOSE n \in heads : TRUE
              e == IF later = {} THEN Len(lines)
                   ELSE (CHOOSE n \in later : \A k \in later : n <= k) - 1
          IN SubSeq(lines, h + 1, e)

\* the lines that list one suggestion
ClaimedEntry(g) ==
  << <<BULLET, SP, "Category:", SP>> \o PyStr(Get(g, Key("category"), Word("General"))),
     <<SP, SP, "Issue:", SP>> \o PyStr(Get(g, Key("issue"), Word("Issue not specified"))),
     <<SP, SP, "Suggested Fix:", SP>>
       \o PyStr(Get(g, Key("solution"), Word("Solution not provided"))),
     <<SP, SP, "Expected Impact:", SP>>
       \o PyStr(Get(g, Key("expected_impact"), Word("Impact not specified"))),
     <<>> >>

GroupHeaders == <<"High Priority:", "Medium Priority:", "Low Priority:">>

\* the groups High, Medium, Low in this order, each with its suggestions in
\* the order of the list, a group without suggestions left out
ClaimedGroups(items) ==
  Concat([k \in 1..3 |->
    LET group == SelectSeq(items,
                           LAMBDA g : Get(g, Key("priority"), JNull) = Word(Priorities[k]))
    IN IF group = <<>> THEN <<>>
       ELSE <<<<GroupHeaders[k]>>>>
            \o Concat([i \in 1..Len(group) |-> ClaimedEntry(group[i])])])

\* the number of suggestions the report lists
ListedSuggestions ==
  Cardinality({n \in 1..Len(SuggestionLines) :
                 StartsWith(SuggestionLines[n], <<BULLET, SP, "Category:", SP>>)})

\* C21: every entry of detailed_suggestions stands exactly once in the
\* report, under its priority group, the groups in the order High, Medium,
\* Low and the entries of a group in the order of the list; and the Detailed
\* Suggestions header is there only when a suggestion is listed under it.
C21_SuggestionsGrouped ==
  (/\ Reported
   /\ DetailedSuggestions.t = "list"
   /\ \A i \in 1..Len(DetailedSuggestions.v) : DetailedSuggestions.v[i].t = "obj")
    => /\ SuggestionLines = ClaimedGroups(DetailedSuggestions.v)
       /\ ListedSuggestions = Len(DetailedSuggestions.v)
       /\ SectionLines("Detailed Suggestions") # {} => ListedSuggestions >= 1

-----------------------------------------------------------------------------
(* Properties of the button (SpecApp)                                      *)

\* a step that is a click of the button: a user action on the offered page
\* that changes neither the file nor the job description
Clicked ==
  /\ Offered
  /\ actions' = actions + 1
  /\ upload' = upload /\ extracted' = extracted /\ job_desc' = job_desc

\* the extraction of the uploaded file succeeded with a text that is not
\* empty, and the job description is not blank
ReadyToAnalyze ==
  /\ upload # NoUpload
  /\ extracted.ok
  /\ extracted.text # <<>>
  /\ ~IsBlank(job_desc)

\* C22: whatever the user does, the outbound call is made only by a click
\* with a successfully extracted resume text that is not empty and a job
\* description that is not blank; such a click makes exactly one call, and
\* every other click shows an error and makes no call.
C22_CallOnlyOnReadyClick ==
  [][/\ calls' # calls => (Clicked /\ ReadyToAnalyze)
     /\ (Clicked /\ ReadyToAnalyze)
          => (calls' = calls + 1 /\ requests' = requests + 1 /\ page' = "report")
     /\ (Clicked /\ ~ReadyToAnalyze)
          => (calls' = calls /\ requests' = requests
              /\ page' \in {"need resume", "need job"})]_vars

\* C22 witness: a file was uploaded and read, a job description typed, and
\* the click that followed made the one call and shows the report.
C22_Witness ==
  /\ page = "report"
  /\ actions = 3
  /\ calls = 1
  /\ requests = 1
  /\ upload # NoUpload
  /\ extracted.ok
  /\ extracted.text # <<>>
  /\ ~IsBlank(job_desc)

====
